---- MODULE Spec2Model ----
(***************************************************************************)
(* US Treasury returns pipeline (ftsfr/us_treasury_returns).               *)
(*                                                                         *)
(* The parts of the repository are modelled, each with its own             *)
(* specification over the shared variables:                                *)
(*   SpecUnwrap  the JSONP unwrapping of pull_treasury_auction_data        *)
(*   SpecPull    src/pull_treasury_auction_stats.py run as a script        *)
(*   SpecChart   src/generate_chart.py and the summary notebook            *)
(*   SpecBuild   the task graph of dodo.py under the doit runner           *)
(*   SpecMonthly the returns calculator's monthly compounding             *)
(*   SpecBucket  the dataset standardizer's maturity buckets               *)
(***************************************************************************)
EXTENDS Integers, Sequences, FiniteSets, TLC

VARIABLES
    \* ---- JSONP unwrapping (SpecUnwrap)
    resp,          \* the response: [pre, payload, suf], byte strings
    unwrapped,     \* the bytes handed to json.loads, or NotYet
    \* ---- the auction pull script (SpecPull)
    pullPc,        \* position in __main__: "idle", "fetch", "process", "write"
    dataDir,       \* TRUE when _data exists
    body,          \* what wpg.read() returned: [pre, suf, valid]
    securityList,  \* data["securityList"] of the run in progress
    df,            \* the DataFrame pull_treasury_auction_data returns
    parquet,       \* _data/treasury_auction_stats.parquet: NoFile or a table
    requests,      \* HTTP requests issued by the run in progress / last run
    lastRun,       \* how the last run ended: "none", "ok", "fetch", "parse", "frame"
    lastOk,        \* the table returned by the most recent successful pull
    replaced,      \* TRUE when the last write replaced a different table
    \* ---- the chart generator and the summary notebook (SpecChart)
    chartPc,       \* position of the step that is running, "idle" or "done"
    portfolioFile, \* _data/ftsfr_treas_bond_portfolio_returns.parquet
    bondsFile,     \* TRUE when _data/ftsfr_treas_bond_returns.parquet exists
    outputDir,     \* TRUE when _output exists
    htmlReturns,   \* _output/us_treasury_returns_replication.html
    htmlCumulative, \* _output/us_treasury_cumulative_returns.html
    nbHtml,        \* TRUE when _output/summary_..._ipynb.html is written
    nbWarned,      \* TRUE when the notebook printed its warning
    stepResult,    \* how the step ended: "none", "ok", "FileNotFoundError"
    \* ---- the task graph of dodo.py under the runner (SpecBuild)
    numWorkers,    \* processes the runner may use (doit -n); 1 without arguments
    phase,         \* "idle" between build runs, "running" during one
    tstate,        \* per task: "pending", "running", "executed", "uptodate", "failed"
    exists,        \* the target files and directories that exist
    dirty,         \* per task: its file_dep changed since its last success
    recorded,      \* the tasks whose last execution succeeded (the runner's db)
    stop,          \* TRUE once a task of this run has failed
    changes,       \* files edited or removed so far
    changedSince,  \* TRUE when a file was edited or removed since the last run
    runs,          \* per task: executions in this run
    atStart,       \* per task: what the runner saw when it started it
    builds,        \* the build runs started so far
    built,         \* TRUE once a run has ended
    lastComplete,  \* TRUE when the last run ended with every task complete
    cleanRebuild,  \* TRUE when this run follows a successful run, no file changed
    fresh,         \* TRUE when this run started with nothing built or recorded
    \* ---- the returns calculator (SpecMonthly)
    cmpPc,         \* "idle" before the monthly returns are computed, then "done"
    dailyReturns,  \* the daily return records: rows [id, day, r]
    monthlyReturns, \* the monthly return records: rows [id, month, num, den]
    \* ---- the dataset standardizer (SpecBucket)
    stdPc,         \* "idle", "assigned" once bucketed, "done" once averaged
    returnRecords, \* the return records: rows [id, ds, maturity, y]
    membership,    \* the bucket memberships: rows [id, ds, bucket]
    portfolio      \* the portfolio dataset: rows [unique_id, ds, y]

vars == << resp, unwrapped,
           pullPc, dataDir, body, securityList, df, parquet, requests,
           lastRun, lastOk, replaced,
           chartPc, portfolioFile, bondsFile, outputDir, htmlReturns,
           htmlCumulative, nbHtml, nbWarned, stepResult,
           numWorkers, phase, tstate, exists, dirty, recorded, stop, changes,
           changedSince, runs, atStart, builds, built, lastComplete,
           cleanRebuild, fresh,
           cmpPc, dailyReturns, monthlyReturns,
           stdPc, returnRecords, membership, portfolio >>

unwrapVars == << resp, unwrapped >>
pullVars == << pullPc, dataDir, body, securityList, df, parquet, requests,
               lastRun, lastOk, replaced >>
chartVars == << chartPc, portfolioFile, bondsFile, outputDir, htmlReturns,
                htmlCumulative, nbHtml, nbWarned, stepResult >>
buildVars == << numWorkers, phase, tstate, exists, dirty, recorded, stop,
                changes, changedSince, runs, atStart, builds, built,
                lastComplete, cleanRebuild, fresh >>
monthlyVars == << cmpPc, dailyReturns, monthlyReturns >>
bucketVars == << stdPc, returnRecords, membership, portfolio >>

-----------------------------------------------------------------------------
(* Byte strings are sequences of one-character strings.                     *)

NotYet == << "?" >>
NoFile == [t |-> "nofile"]

\* b"callback ("
CallbackOpen == << "c", "a", "l", "l", "b", "a", "c", "k", " ", "(" >>
\* b");"
CloseParenSemi == << ")", ";" >>

\* the longest payload, counted in pieces between its braces
MaxPieces == 2

IsPrefixAt(s, old) ==
    /\ Len(old) <= Len(s)
    /\ SubSeq(s, 1, Len(old)) = old

\* bytes.replace(old, new): left to right, non-overlapping, every occurrence
RECURSIVE BytesReplace(_, _, _)
BytesReplace(s, old, new) ==
    IF Len(s) < Len(old) THEN s
    ELSE IF IsPrefixAt(s, old)
         THEN new \o BytesReplace(SubSeq(s, Len(old) + 1, Len(s)), old, new)
         ELSE << Head(s) >> \o BytesReplace(Tail(s), old, new)

\* a plausible slip: the prefix pattern written without its space
UnwrapNoSpace(x) ==
    BytesReplace(BytesReplace(x, CloseParenSemi, << >>),
                 << "c", "a", "l", "l", "b", "a", "c", "k", "(" >>, << >>)

\* x.replace(b");", b"").replace(b"callback (", b"")
Unwrap(x) ==
    BytesReplace(BytesReplace(x, CloseParenSemi, << >>), CallbackOpen, << >>)

Contains(s, pat) ==
    \E i \in 1..(Len(s) - Len(pat) + 1) : SubSeq(s, i, i + Len(pat) - 1) = pat

\* the wrapper as the endpoint sends it, and whitespace variants of it
Callback == << "c", "a", "l", "l", "b", "a", "c", "k" >>
PrefixVariants ==
    { CallbackOpen,
      Callback \o << "(" >>,
      Callback \o << " ", " ", "(" >>,
      Callback \o << "\n", "(" >> }
SuffixVariants ==
    { CloseParenSemi, << ")", " ", ";" >>, << ")", "\n", ";" >> }

\* a JSON object text: braces around up to MaxPieces pieces, among them the
\* two byte sequences the unwrapping deletes
Pieces == { << "a" >>, << ")" >>, << ";" >>, << " " >>, CloseParenSemi, CallbackOpen }
RECURSIVE Flatten(_)
Flatten(ps) == IF ps = << >> THEN << >> ELSE Head(ps) \o Flatten(Tail(ps))
PieceSeqs == UNION { [1..n -> Pieces] : n \in 0..MaxPieces }
Payloads == { << "{" >> \o Flatten(ps) \o << "}" >> : ps \in PieceSeqs }

ResponseBytes(r) == r.pre \o r.payload \o r.suf

UnwrapInit ==
    /\ resp \in [pre : PrefixVariants, payload : Payloads, suf : SuffixVariants]
    /\ unwrapped = NotYet

\* line 194: the argument of json.loads
UnwrapResponse ==
    /\ unwrapped = NotYet
    /\ unwrapped' = Unwrap(ResponseBytes(resp))
    /\ UNCHANGED resp

-----------------------------------------------------------------------------
(* The auction table.  JSON values and DataFrame cells are tagged records.  *)

Str(s) == [t |-> "str", s |-> s]
Null == [t |-> "null"]
Bool(b) == [t |-> "bool", b |-> b]
Num(n) == [t |-> "num", n |-> n]
NaN == [t |-> "nan"]
NaT == [t |-> "nat"]
Timestamp(y, m, d) == [t |-> "timestamp", y |-> y, m |-> m, d |-> d]
\* a float64, in units of 1/1000
Float(n) == [t |-> "float", milli |-> n]

date_cols ==
    << "issueDate", "maturityDate", "announcementDate", "auctionDate",
       "datedDate", "backDatedDate", "callDate", "calledDate",
       "firstInterestPaymentDate", "maturingDate", "originalDatedDate",
       "originalIssueDate", "tintCusip1DueDate", "tintCusip2DueDate" >>

numeric_cols ==
    << "interestRate", "accruedInterestPer1000", "accruedInterestPer100",
       "adjustedAccruedInterestPer1000", "adjustedPrice",
       "allocationPercentage", "averageMedianDiscountRate",
       "averageMedianInvestmentRate", "averageMedianPrice",
       "bidToCoverRatio", "totalAccepted", "totalTendered" >>

bool_cols ==
    << "backDated", "callable", "cashManagementBillCMB", "fimaIncluded",
       "floatingRate", "reopening", "somaIncluded", "strippable", "tips" >>

\* columns the coercion does not touch
other_cols == << "cusip", "securityType" >>

Range(seq) == { seq[i] : i \in 1..Len(seq) }
IndexOf(seq, c) == CHOOSE i \in 1..Len(seq) : seq[i] = c
Columns == Range(date_cols) \cup Range(numeric_cols) \cup Range(bool_cols)
               \cup Range(other_cols)

\* the values the endpoint may send in a column of each kind
DateRaw ==
    << Str("2024-01-15T00:00:00"), Str(""), Str("not a date"), Null,
       Str("1999-12-31T00:00:00") >>
NumRaw ==
    << Str("4.250"), Str(""), Str("N/A"), Null, Num(3), Str("0.125") >>
BoolRaw ==
    << Str("true"), Str("false"), Str("True"), Str("yes"), Bool(TRUE),
       Null, Bool(FALSE) >>

\* the k-th kind of record: column i of a kind holds the (i+k)-th value of
\* that kind, so a record mixes the values and every value of a kind is met
\* in some column of every record
Pick(vals, i, k) == vals[((i + k) % Len(vals)) + 1]
RawRecord(k) ==
    [c \in Columns |->
        IF c \in Range(date_cols) THEN Pick(DateRaw, IndexOf(date_cols, c), k)
        ELSE IF c \in Range(numeric_cols)
             THEN Pick(NumRaw, IndexOf(numeric_cols, c), k)
        ELSE IF c \in Range(bool_cols)
             THEN Pick(BoolRaw, IndexOf(bool_cols, c), k)
        ELSE IF c = "cusip" THEN Str("912828XX1") ELSE Str("Note")]
RecordKinds == {0, 1, 2, 3}
RawRecords == { RawRecord(k) : k \in RecordKinds }

\* the longest securityList
MaxRows == 2
SecurityLists == UNION { [1..n -> RawRecords] : n \in 0..MaxRows }

\* pd.to_datetime(v, errors="coerce") on one cell
ToDatetime(v) ==
    IF v = Str("2024-01-15T00:00:00") THEN Timestamp(2024, 1, 15)
    ELSE IF v = Str("1999-12-31T00:00:00") THEN Timestamp(1999, 12, 31)
    ELSE NaT

\* pd.to_numeric(v, errors="coerce") on one cell
ToNumeric(v) ==
    IF v = Str("4.250") THEN Float(4250)
    ELSE IF v = Str("0.125") THEN Float(125)
    ELSE IF v.t = "num" THEN Float(v.n * 1000)
    ELSE NaN

\* Series.replace with the same dictionary: unmapped values pass through
ReplaceTrueFalse(v) ==
    IF v = Str("true") THEN Bool(TRUE)
    ELSE IF v = Str("false") THEN Bool(FALSE)
    ELSE v

\* Series.map({"true": True, "false": False}) on one cell
MapTrueFalse(v) ==
    IF v = Str("true") THEN Bool(TRUE)
    ELSE IF v = Str("false") THEN Bool(FALSE)
    ELSE NaN

\* the function a column list is converted with
Convert(how, v) ==
    IF how = "to_datetime" THEN ToDatetime(v)
    ELSE IF how = "to_numeric" THEN ToNumeric(v)
    ELSE MapTrueFalse(v)

\* df[cols] = df[cols].apply(how, errors="coerce"), and for the boolean
\* columns df[col] = df[col].map(...) in a loop: every cell of the columns
\* cols is converted, the other cells are kept
ApplyColumns(rows, cols, how) ==
    LET colset == Range(cols) IN
    [i \in 1..Len(rows) |->
        [c \in DOMAIN rows[i] |->
            IF c \in colset THEN Convert(how, rows[i][c]) ELSE rows[i][c]]]

\* a coercion that drops every row holding a missing value (a dropna)
CoerceDroppingRows(rows) ==
    SelectSeq(ApplyColumns(
                  ApplyColumns(
                      ApplyColumns(rows, date_cols, "to_datetime"),
                      numeric_cols, "to_numeric"),
                  bool_cols, "map"),
              LAMBDA r : \A c \in DOMAIN r : r[c] \notin {NaN, NaT})

\* lines 198-247: the three coercions, in the code's order
Coerce(rows) ==
    ApplyColumns(
        ApplyColumns(
            ApplyColumns(rows, date_cols, "to_datetime"),
            numeric_cols, "to_numeric"),
        bool_cols, "map")

-----------------------------------------------------------------------------
(* src/pull_treasury_auction_stats.py run as a script (lines 271-275).      *)

NoBody == [t |-> "nobody"]
NoTable == [t |-> "notable"]
Table(rows) == [t |-> "table", rows |-> rows]

\* the text of the JSON document inside the wrapper, or of an error page
DocText(valid) ==
    IF valid THEN << "{", "}" >> ELSE << "<", "h", "t", "m", "l", ">" >>

BodyBytes(b) == b.pre \o DocText(b.valid) \o b.suf

Bodies ==
    [pre : { CallbackOpen, Callback \o << "(" >> },
     suf : { CloseParenSemi, << ")", " ", ";" >> },
     valid : BOOLEAN]

\* json.loads accepts the document's text, whitespace around it allowed
RECURSIVE LStrip(_)
LStrip(s) ==
    IF s # << >> /\ Head(s) \in {" ", "\n"} THEN LStrip(Tail(s)) ELSE s
RECURSIVE RStrip(_)
RStrip(s) ==
    IF s # << >> /\ s[Len(s)] \in {" ", "\n"}
    THEN RStrip(SubSeq(s, 1, Len(s) - 1)) ELSE s
JsonLoadsOk(text) == RStrip(LStrip(text)) = DocText(TRUE)

\* a to_parquet that appends to the file it finds
ToParquetAppending(file, table) ==
    IF file = NoFile THEN table ELSE Table(file.rows \o table.rows)

\* df.to_parquet(path, index=False): the file holds the table, whatever it held
ToParquet(file, table) == table

PullInit ==
    /\ pullPc = "idle"
    /\ dataDir = FALSE
    /\ body = NoBody
    /\ securityList = NoTable
    /\ df = NoTable
    /\ parquet = NoFile
    /\ requests = 0
    /\ lastRun = "none"
    /\ lastOk = NoTable
    /\ replaced = FALSE

\* the run ends without reaching to_parquet
Abort(stage) ==
    /\ pullPc' = "idle"
    /\ lastRun' = stage
    /\ body' = NoBody
    /\ securityList' = NoTable
    /\ df' = NoTable
    /\ UNCHANGED << dataDir, parquet, lastOk, replaced >>

\* line 272: DATA_DIR.mkdir(parents=True, exist_ok=True)
MainStart ==
    /\ pullPc = "idle"
    /\ pullPc' = "fetch"
    /\ dataDir' = TRUE
    /\ requests' = 0
    /\ lastRun' = "running"
    /\ UNCHANGED << body, securityList, df, parquet, lastOk, replaced >>

\* lines 192-193: urlopen(url) and wpg.read(); an URLError propagates
Fetch ==
    /\ pullPc = "fetch"
    /\ requests' = requests + 1
    /\ \/ Abort("fetch")
       \/ /\ body' \in Bodies
          /\ pullPc' = "process"
          /\ UNCHANGED << dataDir, securityList, df, parquet, lastRun, lastOk, replaced >>

\* a run that leaves an empty table file behind when the parse fails
ProcessWritingOnError ==
    /\ pullPc = "process"
    /\ UNCHANGED requests
    /\ IF ~JsonLoadsOk(Unwrap(BodyBytes(body)))
       THEN /\ pullPc' = "idle"
            /\ lastRun' = "parse"
            /\ body' = NoBody
            /\ securityList' = NoTable
            /\ df' = NoTable
            /\ parquet' = Table(<< >>)
            /\ UNCHANGED << dataDir, lastOk, replaced >>
       ELSE \E list \in SecurityLists :
               IF list = << >>
               THEN Abort("frame")
               ELSE /\ securityList' = Table(list)
                    /\ df' = Table(Coerce(list))
                    /\ pullPc' = "write"
                    /\ UNCHANGED << dataDir, body, parquet, lastRun, lastOk,
                                    replaced >>

\* lines 194-249: json.loads of the unwrapped bytes (a JSONDecodeError
\* propagates), pd.DataFrame(data["securityList"]) and the coercions (an
\* empty list gives a frame without columns, and df[date_cols] a KeyError)
Process ==
    /\ pullPc = "process"
    /\ UNCHANGED requests
    /\ IF ~JsonLoadsOk(Unwrap(BodyBytes(body)))
       THEN Abort("parse")
       ELSE \E list \in SecurityLists :
               IF list = << >>
               THEN Abort("frame")
               ELSE /\ securityList' = Table(list)
                    /\ df' = Table(Coerce(list))
                    /\ pullPc' = "write"
                    /\ UNCHANGED << dataDir, body, parquet, lastRun, lastOk,
                                    replaced >>

\* line 275: df.to_parquet(DATA_DIR / "treasury_auction_stats.parquet")
WriteParquet ==
    /\ pullPc = "write"
    /\ parquet' = ToParquet(parquet, df)
    /\ pullPc' = "idle"
    /\ lastRun' = "ok"
    /\ body' = NoBody
    /\ securityList' = NoTable
    /\ df' = NoTable
    /\ lastOk' = df
    /\ replaced' = (parquet # NoFile /\ parquet # df)
    /\ UNCHANGED << dataDir, requests >>

-----------------------------------------------------------------------------
(* src/generate_chart.py and src/summary_treasury_bond_returns_ipynb.py.    *)
(* Returns are integers, so that the products are exact.                     *)

\* unique_id is a string: the buckets, in the order sort_values gives them
BucketIds == << "1", "10" >>
\* the last observation date
MaxDate == 2
Dates == 1..MaxDate
Returns == {1, 2}
\* the longest portfolio table
MaxObs == 3

PortfolioRows == [unique_id : Range(BucketIds), ds : Dates, y : Returns]
\* the tidy portfolio dataset: rows in any order, one per (unique_id, ds)
PortfolioTables ==
    { t \in UNION { [1..n -> PortfolioRows] : n \in 0..MaxObs } :
        \A i, j \in 1..Len(t) :
            (t[i].unique_id = t[j].unique_id /\ t[i].ds = t[j].ds) => i = j }

\* the order of sort_values(['unique_id', 'ds'])
RowBefore(a, b) ==
    \/ IndexOf(BucketIds, a.unique_id) < IndexOf(BucketIds, b.unique_id)
    \/ a.unique_id = b.unique_id /\ a.ds < b.ds

RECURSIVE InsertSorted(_, _, _)
InsertSorted(r, sorted, byDateOnly) ==
    IF sorted = << >> THEN << r >>
    ELSE IF (IF byDateOnly THEN r.ds < Head(sorted).ds
             ELSE RowBefore(r, Head(sorted)))
         THEN << r >> \o sorted
         ELSE << Head(sorted) >> \o InsertSorted(r, Tail(sorted), byDateOnly)

\* df.sort_values(keys)
RECURSIVE SortValues(_, _)
SortValues(rows, byDateOnly) ==
    IF rows = << >> THEN << >>
    ELSE InsertSorted(rows[Len(rows)],
                      SortValues(SubSeq(rows, 1, Len(rows) - 1), byDateOnly),
                      byDateOnly)

\* (1 + x).cumprod() on one group's returns, started from acc
RECURSIVE Cumprod(_, _)
Cumprod(ys, acc) ==
    IF ys = << >> THEN << >>
    ELSE << acc * (1 + Head(ys)) >> \o Cumprod(Tail(ys), acc * (1 + Head(ys)))

\* the y column of the rows of one group, in the frame's order
GroupReturns(rows, id) ==
    LET g == SelectSeq(rows, LAMBDA r : r.unique_id = id)
    IN  [k \in 1..Len(g) |-> g[k].y]

\* the place of row i within its group
PlaceInGroup(rows, i) ==
    Cardinality({ j \in 1..i : rows[j].unique_id = rows[i].unique_id })

\* the running product taken down the whole frame, not per bucket
CumulativeUngrouped(rows) ==
    LET sorted == SortValues(rows, FALSE)
        all == Cumprod([k \in 1..Len(sorted) |-> sorted[k].y], 1)
    IN  [i \in 1..Len(sorted) |->
            [unique_id |-> sorted[i].unique_id, ds |-> sorted[i].ds,
             y |-> sorted[i].y, cumulative |-> all[i]]]

\* lines 56-59: sort by (unique_id, ds), then per unique_id the running
\* product of 1 + y, put back on the rows
CumulativeReturns(rows) ==
    LET sorted == SortValues(rows, FALSE)
    IN  [i \in 1..Len(sorted) |->
            [unique_id |-> sorted[i].unique_id, ds |-> sorted[i].ds,
             y |-> sorted[i].y,
             cumulative |->
                 Cumprod(GroupReturns(sorted, sorted[i].unique_id), 1)
                     [PlaceInGroup(sorted, i)]]]

\* a treasury_auction_stats.parquet for the notebook to find
SomeAuctionFile == Table(Coerce(<< RawRecord(0) >>))

ChartInit ==
    /\ chartPc = "idle"
    /\ portfolioFile \in {NoFile} \cup { Table(t) : t \in PortfolioTables }
    /\ bondsFile \in BOOLEAN
    /\ outputDir = FALSE
    /\ htmlReturns = NoFile
    /\ htmlCumulative = NoFile
    /\ nbHtml = FALSE
    /\ nbWarned = FALSE
    /\ stepResult = "none"

ChartAtRest ==
    /\ chartPc = "idle"
    /\ portfolioFile = NoFile
    /\ bondsFile = FALSE
    /\ outputDir = FALSE
    /\ htmlReturns = NoFile
    /\ htmlCumulative = NoFile
    /\ nbHtml = FALSE
    /\ nbWarned = FALSE
    /\ stepResult = "none"

\* pd.read_parquet raises FileNotFoundError and the step ends there
FileNotFound ==
    /\ chartPc' = "done"
    /\ stepResult' = "FileNotFoundError"
    /\ UNCHANGED << portfolioFile, bondsFile, outputDir, htmlReturns,
                    htmlCumulative, nbHtml, nbWarned >>

\* a generator that makes _output and an empty chart before it reads
ReturnsChartWritingFirst ==
    /\ chartPc = "idle"
    /\ IF portfolioFile = NoFile
       THEN /\ chartPc' = "done"
            /\ stepResult' = "FileNotFoundError"
            /\ outputDir' = TRUE
            /\ htmlReturns' = Table(<< >>)
            /\ UNCHANGED << portfolioFile, bondsFile, htmlCumulative, nbHtml,
                            nbWarned >>
       ELSE /\ outputDir' = TRUE
            /\ htmlReturns' = Table(SortValues(portfolioFile.rows, TRUE))
            /\ chartPc' = "cumulative"
            /\ UNCHANGED << portfolioFile, bondsFile, htmlCumulative, nbHtml,
                            nbWarned, stepResult >>

\* generate_chart.py line 94: generate_treasury_returns_chart()
ReturnsChart ==
    /\ chartPc = "idle"
    /\ IF portfolioFile = NoFile
       THEN FileNotFound
       ELSE /\ outputDir' = TRUE
            /\ htmlReturns' = Table(SortValues(portfolioFile.rows, TRUE))
            /\ chartPc' = "cumulative"
            /\ UNCHANGED << portfolioFile, bondsFile, htmlCumulative, nbHtml,
                            nbWarned, stepResult >>

\* generate_chart.py line 95: generate_us_treasury_cumulative_returns_chart()
CumulativeChart ==
    /\ chartPc = "cumulative"
    /\ IF portfolioFile = NoFile
       THEN FileNotFound
       ELSE /\ outputDir' = TRUE
            /\ htmlCumulative' = Table(CumulativeReturns(portfolioFile.rows))
            /\ chartPc' = "done"
            /\ stepResult' = "ok"
            /\ UNCHANGED << portfolioFile, bondsFile, htmlReturns, nbHtml,
                            nbWarned >>

\* notebook line 54: df_bonds = pd.read_parquet(...)
NbLoadBonds ==
    /\ chartPc = "idle"
    /\ IF ~bondsFile
       THEN FileNotFound
       ELSE /\ chartPc' = "nb_portfolio"
            /\ UNCHANGED << portfolioFile, bondsFile, outputDir, htmlReturns,
                            htmlCumulative, nbHtml, nbWarned, stepResult >>

\* notebook line 69: df_portfolio = pd.read_parquet(...)
NbLoadPortfolio ==
    /\ chartPc = "nb_portfolio"
    /\ IF portfolioFile = NoFile
       THEN FileNotFound
       ELSE /\ chartPc' = "nb_auction"
            /\ UNCHANGED << portfolioFile, bondsFile, outputDir, htmlReturns,
                            htmlCumulative, nbHtml, nbWarned, stepResult >>

\* notebook lines 142-156: the auction cell, its FileNotFoundError caught
NbAuction ==
    /\ chartPc = "nb_auction"
    /\ nbWarned' = (parquet = NoFile)
    /\ chartPc' = "nb_export"
    /\ UNCHANGED << portfolioFile, bondsFile, outputDir, htmlReturns,
                    htmlCumulative, nbHtml, stepResult >>

\* dodo.py lines 155-156: the executed notebook is exported to _output
NbExport ==
    /\ chartPc = "nb_export"
    /\ outputDir' = TRUE
    /\ nbHtml' = TRUE
    /\ chartPc' = "done"
    /\ stepResult' = "ok"
    /\ UNCHANGED << portfolioFile, bondsFile, htmlReturns, htmlCumulative,
                    nbWarned >>

-----------------------------------------------------------------------------
(* dodo.py: the tasks, and the runner (doit) that executes them.            *)

\* the tasks in the order dodo.py defines them; run_notebooks stands for its
\* one sub-task, summary_treasury_bond_returns_ipynb
TaskOrder ==
    << "config", "pull_treasury_auction", "pull_crsp_treasury",
       "calc_run_status", "calc_returns", "create_ftsfr_datasets",
       "run_notebooks", "generate_charts", "generate_pipeline_site" >>
Tasks == Range(TaskOrder)

DataDir == "_data"
OutputDir == "_output"
AuctionStats == "_data/treasury_auction_stats.parquet"
CrspConsolidated == "_data/CRSP_TFZ_consolidated.parquet"
FtsfrBonds == "_data/ftsfr_treas_bond_returns.parquet"
FtsfrPortfolio == "_data/ftsfr_treas_bond_portfolio_returns.parquet"
NotebookPy == "src/summary_treasury_bond_returns_ipynb.py"
ReturnsHtml == "_output/us_treasury_returns_replication.html"
CumulativeHtml == "_output/us_treasury_cumulative_returns.html"

\* "file_dep" of each task
file_dep(t) ==
    CASE t = "config" -> {}
      [] t = "pull_treasury_auction" -> {"src/pull_treasury_auction_stats.py"}
      [] t = "pull_crsp_treasury" -> {"src/pull_CRSP_treasury.py"}
      [] t = "calc_run_status" ->
            {"src/calc_treasury_run_status.py", AuctionStats}
      [] t = "calc_returns" ->
            {"src/calc_treasury_bond_returns.py", "src/pull_CRSP_treasury.py",
             CrspConsolidated}
      [] t = "create_ftsfr_datasets" ->
            {"src/create_ftsfr_datasets.py",
             "src/calc_treasury_bond_returns.py", "src/pull_CRSP_treasury.py",
             CrspConsolidated}
      [] t = "run_notebooks" -> {NotebookPy, FtsfrBonds, FtsfrPortfolio}
      [] t = "generate_charts" -> {"src/generate_chart.py", FtsfrPortfolio}
      [] t = "generate_pipeline_site" ->
            {"chartbook.toml", NotebookPy, ReturnsHtml, CumulativeHtml}

\* "targets" of each task
targets(t) ==
    CASE t = "config" -> {DataDir, OutputDir}
      [] t = "pull_treasury_auction" -> {AuctionStats}
      [] t = "pull_crsp_treasury" ->
            {"_data/CRSP_TFZ_DAILY.parquet", "_data/CRSP_TFZ_INFO.parquet",
             CrspConsolidated, "_data/CRSP_TFZ_with_runness.parquet"}
      [] t = "calc_run_status" ->
            {"_data/issue_dates.parquet",
             "_data/treasuries_with_run_status.parquet"}
      [] t = "calc_returns" ->
            {"_data/treasury_bond_portfolio_returns.parquet"}
      [] t = "create_ftsfr_datasets" -> {FtsfrBonds, FtsfrPortfolio}
      [] t = "run_notebooks" ->
            {"_output/summary_treasury_bond_returns_ipynb.html"}
      [] t = "generate_charts" -> {ReturnsHtml, CumulativeHtml}
      [] t = "generate_pipeline_site" -> {"docs/index.html"}

\* "task_dep" of each task
task_dep(t) ==
    CASE t = "generate_charts" -> {"create_ftsfr_datasets"}
      [] t = "generate_pipeline_site" -> {"run_notebooks", "generate_charts"}
      [] OTHER -> {}

\* the files a step reads that its task does not declare
undeclared_reads(t) ==
    CASE t = "run_notebooks" -> {AuctionStats}
      [] OTHER -> {}

TargetFiles == UNION { targets(t) : t \in Tasks }
SourceFiles == (UNION { file_dep(t) : t \in Tasks }) \ TargetFiles
Directories == {DataDir, OutputDir}

\* the task a target belongs to
Producers(f) == { u \in Tasks : f \in targets(u) }

\* the runner orders a task after the tasks of its task_dep and after the
\* tasks whose targets are among its file_dep
Deps(t) ==
    task_dep(t) \cup { u \in Tasks \ {t} : targets(u) \cap file_dep(t) # {} }

\* the tasks whose step talks to the network and may fail
CanFail == {"pull_treasury_auction", "pull_crsp_treasury"}

\* the most processes the runner is given
MaxWorkers == 2
\* the most files edited or removed in all
MaxChanges == 1
\* the most build runs in a row
MaxBuilds == 2

Complete(t) == tstate[t] \in {"executed", "uptodate"}
Running == { t \in Tasks : tstate[t] = "running" }
Ready(t) ==
    /\ tstate[t] = "pending"
    /\ \A d \in Deps(t) : Complete(d)

\* an up-to-date check that never finds a task up to date
NeedsRunAlways(t) == t \in Tasks

\* the runner's up-to-date check: a task without file_dep is always
\* executed; otherwise it is executed when a target is missing, when no
\* successful execution is recorded, or when a file_dep has changed since
NeedsRun(t) ==
    \/ file_dep(t) = {}
    \/ targets(t) \ exists # {}
    \/ t \notin recorded
    \/ dirty[t] # {}

NoStart == [missing |-> FALSE, changed |-> FALSE, unrecorded |-> FALSE]

\* a fresh checkout: nothing built, nothing recorded
Fresh ==
    /\ phase = "idle"
    /\ tstate = [t \in Tasks |-> "pending"]
    /\ exists = {}
    /\ dirty = [t \in Tasks |-> {}]
    /\ recorded = {}
    /\ stop = FALSE
    /\ changes = 0
    /\ changedSince = FALSE
    /\ runs = [t \in Tasks |-> 0]
    /\ atStart = [t \in Tasks |-> NoStart]
    /\ builds = 0
    /\ built = FALSE
    /\ lastComplete = FALSE
    /\ cleanRebuild = FALSE
    /\ fresh = FALSE

\* "Run with: doit": one process
BuildInit == numWorkers = 1 /\ Fresh

\* "doit -n N": N processes
ParallelInit == numWorkers \in 2..MaxWorkers /\ Fresh

BuildAtRest == BuildInit

\* the build entry point: dodo.py is loaded (mv() at line 36 makes _output
\* while task_run_notebooks is evaluated) and every task is selected
BeginBuild ==
    /\ phase = "idle"
    /\ builds < MaxBuilds
    /\ builds' = builds + 1
    /\ phase' = "running"
    /\ exists' = exists \cup {OutputDir}
    /\ cleanRebuild' = (built /\ ~changedSince /\ lastComplete)
    /\ fresh' = (recorded = {} /\ exists = {})
    /\ changedSince' = FALSE
    /\ UNCHANGED << numWorkers, tstate, dirty, recorded, stop, runs, atStart,
                    built, lastComplete, changes >>

\* a runner that takes any pending task, whatever it waits for
DispatchAnyPending(t) ==
    /\ phase = "running"
    /\ ~stop
    /\ tstate[t] = "pending"
    /\ Cardinality(Running) < numWorkers
    /\ IF NeedsRun(t)
       THEN /\ tstate' = [tstate EXCEPT ![t] = "running"]
            /\ runs' = [runs EXCEPT ![t] = @ + 1]
            /\ atStart' = [atStart EXCEPT ![t] =
                              [missing |-> targets(t) \ exists # {},
                               changed |-> dirty[t] # {},
                               unrecorded |-> t \notin recorded]]
            /\ UNCHANGED << recorded, stop >>
       ELSE /\ tstate' = [tstate EXCEPT ![t] = "uptodate"]
            /\ UNCHANGED << recorded, stop, runs, atStart >>
    /\ UNCHANGED << numWorkers, phase, exists, dirty, changes, changedSince,
                    builds, built, lastComplete, cleanRebuild, fresh >>

\* the runner takes the next task: with one process the tasks come in the
\* order of dodo.py, each after its dependencies; with more, any task whose
\* dependencies are complete may take a free process
Dispatch(t) ==
    /\ phase = "running"
    /\ ~stop
    /\ Ready(t)
    /\ Cardinality(Running) < numWorkers
    /\ numWorkers = 1 =>
          \A i \in 1..(IndexOf(TaskOrder, t) - 1) :
              tstate[TaskOrder[i]] # "pending"
    /\ IF NeedsRun(t)
       THEN /\ tstate' = [tstate EXCEPT ![t] = "running"]
            /\ runs' = [runs EXCEPT ![t] = @ + 1]
            /\ atStart' = [atStart EXCEPT ![t] =
                              [missing |-> targets(t) \ exists # {},
                               changed |-> dirty[t] # {},
                               unrecorded |-> t \notin recorded]]
            /\ UNCHANGED << recorded, stop >>
       ELSE /\ tstate' = [tstate EXCEPT ![t] = "uptodate"]
            /\ UNCHANGED << recorded, stop, runs, atStart >>
    /\ UNCHANGED << numWorkers, phase, exists, dirty, changes, changedSince,
                    builds, built, lastComplete, cleanRebuild, fresh >>

\* the task's actions end: on success its targets exist, its dependencies'
\* state is saved, and the tasks reading a rewritten target see it changed
\* (or not, when the content is the same); on failure the saved state is
\* dropped and the run stops taking tasks
Finish(t) ==
    /\ phase = "running"
    /\ tstate[t] = "running"
    /\ \/ \E contentChanged \in BOOLEAN :
             /\ tstate' = [tstate EXCEPT ![t] = "executed"]
             /\ exists' = exists \cup targets(t)
             /\ recorded' = recorded \cup {t}
             /\ dirty' = [w \in Tasks |->
                            IF w = t THEN {}
                            ELSE IF contentChanged
                                 THEN dirty[w] \cup (targets(t) \cap file_dep(w))
                                 ELSE dirty[w]]
             /\ UNCHANGED stop
       \/ /\ t \in CanFail
          /\ tstate' = [tstate EXCEPT ![t] = "failed"]
          /\ recorded' = recorded \ {t}
          /\ stop' = TRUE
          /\ UNCHANGED << exists, dirty >>
    /\ UNCHANGED << numWorkers, phase, changes, changedSince, runs, atStart,
                    builds, built, lastComplete, cleanRebuild, fresh >>

\* nothing is running, and nothing is left to take
BuildOver ==
    /\ phase = "running"
    /\ Running = {}
    /\ stop \/ \A t \in Tasks : tstate[t] # "pending"

\* the run ends and the runner exits; what stays is on disk
EndBuild ==
    /\ BuildOver
    /\ phase' = "idle"
    /\ built' = TRUE
    /\ UNCHANGED builds
    /\ lastComplete' = \A t \in Tasks : Complete(t)
    /\ tstate' = [t \in Tasks |-> "pending"]
    /\ stop' = FALSE
    /\ runs' = [t \in Tasks |-> 0]
    /\ atStart' = [t \in Tasks |-> NoStart]
    /\ cleanRebuild' = FALSE
    /\ fresh' = FALSE
    /\ UNCHANGED << numWorkers, exists, dirty, recorded, changes,
                    changedSince >>

\* between runs somebody edits a script or chartbook.toml
EditSource(f) ==
    /\ phase = "idle"
    /\ changes < MaxChanges
    /\ f \in SourceFiles
    /\ dirty' = [w \in Tasks |->
                    IF f \in file_dep(w) THEN dirty[w] \cup {f} ELSE dirty[w]]
    /\ changes' = changes + 1
    /\ changedSince' = TRUE
    /\ UNCHANGED << numWorkers, phase, tstate, exists, recorded, stop, runs,
                    atStart, builds, built, lastComplete, cleanRebuild, fresh >>

\* between runs somebody removes an output file
RemoveTarget(f) ==
    /\ phase = "idle"
    /\ changes < MaxChanges
    /\ f \in exists \ Directories
    /\ exists' = exists \ {f}
    /\ changes' = changes + 1
    /\ changedSince' = TRUE
    /\ UNCHANGED << numWorkers, phase, tstate, dirty, recorded, stop, runs,
                    atStart, builds, built, lastComplete, cleanRebuild, fresh >>

-----------------------------------------------------------------------------
(* The returns calculator: monthly returns compounded from daily returns.   *)

\* the securities of the end-to-end scenario
Securities == {"A", "B"}
\* the most calendar days
MaxDays == 4
\* the calendar days of a month
DaysPerMonth == 2
Days == 1..MaxDays
MonthOf(day) == ((day - 1) \div DaysPerMonth) + 1
Months == { MonthOf(day) : day \in Days }
\* a return of 1, when returns are counted in tenths
Unit == 10
\* the daily returns tried, in tenths
DailyReturns == {-1, 2}
\* what a security did on a day: no trade, or one daily return
DayOutcomes == { << >> } \cup { << r >> : r \in DailyReturns }

MonthlyInit ==
    /\ cmpPc = "idle"
    /\ \E outcome \in [Securities -> [Days -> DayOutcomes]] :
          dailyReturns =
              { [id |-> sd[1], day |-> sd[2], r |-> outcome[sd[1]][sd[2]][1]] :
                sd \in { x \in Securities \X Days :
                           outcome[x[1]][x[2]] # << >> } }
    /\ monthlyReturns = {}

MonthlyAtRest ==
    /\ cmpPc = "idle"
    /\ dailyReturns = {}
    /\ monthlyReturns = {}

\* the daily return records of a security in a month
TradingDays(s, month) ==
    { row \in dailyReturns : row.id = s /\ MonthOf(row.day) = month }

RECURSIVE GrossNum(_)
GrossNum(rows) ==
    IF rows = {} THEN 1
    ELSE LET row == CHOOSE x \in rows : TRUE
         IN  (Unit + row.r) * GrossNum(rows \ {row})

RECURSIVE GrossDen(_)
GrossDen(rows) ==
    IF rows = {} THEN 1
    ELSE LET row == CHOOSE x \in rows : TRUE
         IN  Unit * GrossDen(rows \ {row})

RECURSIVE SumDaily(_)
SumDaily(rows) ==
    IF rows = {} THEN 0
    ELSE LET row == CHOOSE x \in rows : TRUE
         IN  row.r + SumDaily(rows \ {row})

\* the daily returns added up, as the fraction num / den
AddUp(rows) == [num |-> SumDaily(rows), den |-> Unit]

\* (1 + r) multiplied across the rows, minus 1, as the fraction num / den
Compound(rows) ==
    [num |-> GrossNum(rows) - GrossDen(rows), den |-> GrossDen(rows)]

\* one monthly return record per security and month with trading days
CompoundMonthly ==
    /\ cmpPc = "idle"
    /\ monthlyReturns' =
          { [id |-> sm[1], month |-> sm[2],
             num |-> Compound(TradingDays(sm[1], sm[2])).num,
             den |-> Compound(TradingDays(sm[1], sm[2])).den] :
            sm \in { x \in Securities \X Months :
                       TradingDays(x[1], x[2]) # {} } }
    /\ cmpPc' = "done"
    /\ UNCHANGED dailyReturns

-----------------------------------------------------------------------------
(* The dataset standardizer: maturity buckets and portfolio returns.        *)

\* the most observation dates
MaxObsDates == 2
ObsDates == 1..MaxObsDates
\* the longest remaining maturity tried, in quarters of a year
MaxQuarters == 22
\* the individual returns tried, in units that halve exactly
IndividualReturns == {2, 4}

\* "Bins: [0.0, 0.5, 1.0, ..., 5.0]", in quarters of a year
Bins == << 0, 2, 4, 6, 8, 10, 12, 14, 16, 18, 20 >>
\* "Create 10 maturity groups"
Groups == 1..(Len(Bins) - 1)

\* buckets closed at both ends: a boundary belongs to two of them
InBucketClosed(maturity, k) == Bins[k] <= maturity /\ maturity <= Bins[k + 1]

\* bucket k holds the remaining maturities above its lower edge up to and
\* including its upper edge: a boundary goes to the lower bucket, 5.0 to
\* the last one
InBucket(maturity, k) == Bins[k] < maturity /\ maturity <= Bins[k + 1]

\* observation dates are a quarter apart; a security is present up to
\* its maturity date
RemainingMaturity(maturityDate, ds) == maturityDate - (ds - 1)

BucketInit ==
    /\ stdPc = "idle"
    /\ \E maturityDate \in [Securities -> 0..MaxQuarters] :
       \E y \in [Securities -> [ObsDates -> IndividualReturns]] :
          returnRecords =
              { rec \in { [id |-> s, ds |-> d,
                           maturity |-> RemainingMaturity(maturityDate[s], d),
                           y |-> y[s][d]] :
                          s \in Securities, d \in ObsDates } :
                rec.maturity >= 0 }
    /\ membership = {}
    /\ portfolio = {}

BucketAtRest ==
    /\ stdPc = "idle"
    /\ returnRecords = {}
    /\ membership = {}
    /\ portfolio = {}

\* each return record is assigned to the buckets its remaining maturity
\* falls in
AssignBuckets ==
    /\ stdPc = "idle"
    /\ membership' =
          UNION { { [id |-> r.id, ds |-> r.ds, bucket |-> k] :
                    k \in { g \in Groups : InBucket(r.maturity, g) } } :
                  r \in returnRecords }
    /\ stdPc' = "assigned"
    /\ UNCHANGED << returnRecords, portfolio >>

\* the securities of bucket k on date d
Members(k, d) == { m \in membership : m.bucket = k /\ m.ds = d }

\* the return of a member
ReturnOf(m) ==
    (CHOOSE r \in returnRecords : r.id = m.id /\ r.ds = m.ds).y

RECURSIVE SumReturns(_)
SumReturns(S) ==
    IF S = {} THEN 0
    ELSE LET m == CHOOSE x \in S : TRUE
         IN  ReturnOf(m) + SumReturns(S \ {m})

\* the cross-sectional arithmetic mean
Mean(S) == SumReturns(S) \div Cardinality(S)

\* one row for every bucket and date, zero where the bucket is empty
MeanByBucketWithPlaceholders ==
    /\ stdPc = "assigned"
    /\ portfolio' =
          { [unique_id |-> ToString(k), ds |-> d,
             y |-> IF Members(k, d) = {} THEN 0 ELSE Mean(Members(k, d))] :
            k \in Groups, d \in ObsDates }
    /\ stdPc' = "done"
    /\ UNCHANGED << returnRecords, membership >>

\* the portfolio dataset: one row per bucket and date that has members,
\* holding the mean of their returns
MeanByBucket ==
    /\ stdPc = "assigned"
    /\ portfolio' =
          { [unique_id |-> ToString(kd[1]), ds |-> kd[2],
             y |-> Mean(Members(kd[1], kd[2]))] :
            kd \in { x \in Groups \X ObsDates : Members(x[1], x[2]) # {} } }
    /\ stdPc' = "done"
    /\ UNCHANGED << returnRecords, membership >>

-----------------------------------------------------------------------------
(* Specifications.  Each one runs one part and leaves the others at rest.   *)

NoResp == [pre |-> << >>, payload |-> << >>, suf |-> << >>]
UnwrapAtRest == resp = NoResp /\ unwrapped = NotYet

SpecUnwrapInit == UnwrapInit /\ PullInit /\ ChartAtRest /\ BuildAtRest
    /\ MonthlyAtRest /\ BucketAtRest
SpecUnwrapNext == UnwrapResponse /\ UNCHANGED << pullVars, chartVars, buildVars, monthlyVars,
                    bucketVars >>
SpecUnwrap == SpecUnwrapInit /\ [][SpecUnwrapNext]_vars

SpecPullInit == PullInit /\ UnwrapAtRest /\ ChartAtRest /\ BuildAtRest
    /\ MonthlyAtRest /\ BucketAtRest
SpecPullNext ==
    \/ MainStart /\ UNCHANGED << unwrapVars, chartVars, buildVars, monthlyVars,
                    bucketVars >>
    \/ Fetch /\ UNCHANGED << unwrapVars, chartVars, buildVars, monthlyVars,
                    bucketVars >>
    \/ Process /\ UNCHANGED << unwrapVars, chartVars, buildVars, monthlyVars,
                    bucketVars >>
    \/ WriteParquet /\ UNCHANGED << unwrapVars, chartVars, buildVars, monthlyVars,
                    bucketVars >>
SpecPull == SpecPullInit /\ [][SpecPullNext]_vars

\* the chart generator or the notebook, run once on the files it finds
SpecChartInit ==
    /\ ChartInit
    /\ UnwrapAtRest
    /\ BuildAtRest
    /\ MonthlyAtRest
    /\ BucketAtRest
    /\ pullPc = "idle"
    /\ dataDir = TRUE
    /\ body = NoBody
    /\ securityList = NoTable
    /\ df = NoTable
    /\ parquet \in {NoFile, SomeAuctionFile}
    /\ requests = 0
    /\ lastRun = "none"
    /\ lastOk = NoTable
    /\ replaced = FALSE
SpecChartNext ==
    \/ ReturnsChart /\ UNCHANGED << unwrapVars, pullVars, buildVars, monthlyVars,
                    bucketVars >>
    \/ CumulativeChart /\ UNCHANGED << unwrapVars, pullVars, buildVars, monthlyVars,
                    bucketVars >>
    \/ NbLoadBonds /\ UNCHANGED << unwrapVars, pullVars, buildVars, monthlyVars,
                    bucketVars >>
    \/ NbLoadPortfolio /\ UNCHANGED << unwrapVars, pullVars, buildVars, monthlyVars,
                    bucketVars >>
    \/ NbAuction /\ UNCHANGED << unwrapVars, pullVars, buildVars, monthlyVars,
                    bucketVars >>
    \/ NbExport /\ UNCHANGED << unwrapVars, pullVars, buildVars, monthlyVars,
                    bucketVars >>
SpecChart == SpecChartInit /\ [][SpecChartNext]_vars

\* build runs with one process, with edits and removals between them
SpecBuildInit == BuildInit /\ UnwrapAtRest /\ PullInit /\ ChartAtRest
    /\ MonthlyAtRest /\ BucketAtRest
SpecBuildNext ==
    \/ BeginBuild /\ UNCHANGED << unwrapVars, pullVars, chartVars, monthlyVars,
                    bucketVars >>
    \/ \E t \in Tasks :
          Dispatch(t) /\ UNCHANGED << unwrapVars, pullVars, chartVars, monthlyVars,
                    bucketVars >>
    \/ \E t \in Tasks :
          Finish(t) /\ UNCHANGED << unwrapVars, pullVars, chartVars, monthlyVars,
                    bucketVars >>
    \/ EndBuild /\ UNCHANGED << unwrapVars, pullVars, chartVars, monthlyVars,
                    bucketVars >>
    \/ \E f \in SourceFiles :
          EditSource(f) /\ UNCHANGED << unwrapVars, pullVars, chartVars, monthlyVars,
                    bucketVars >>
    \/ \E f \in TargetFiles :
          RemoveTarget(f) /\ UNCHANGED << unwrapVars, pullVars, chartVars, monthlyVars,
                    bucketVars >>
SpecBuild == SpecBuildInit /\ [][SpecBuildNext]_vars

\* the runner's loop goes on until the run is over
RunnerStep ==
    /\ \/ \E t \in Tasks : Dispatch(t)
       \/ \E t \in Tasks : Finish(t)
       \/ EndBuild
    /\ UNCHANGED << unwrapVars, pullVars, chartVars, monthlyVars,
                    bucketVars >>
SpecBuildLive == SpecBuild /\ WF_vars(RunnerStep)

\* one run of a fresh checkout with several processes
SpecParallelInit == ParallelInit /\ UnwrapAtRest /\ PullInit /\ ChartAtRest
    /\ MonthlyAtRest /\ BucketAtRest
SpecParallelNext ==
    \/ (BeginBuild /\ ~built) /\ UNCHANGED << unwrapVars, pullVars, chartVars, monthlyVars,
                    bucketVars >>
    \/ \E t \in Tasks :
          Dispatch(t) /\ UNCHANGED << unwrapVars, pullVars, chartVars, monthlyVars,
                    bucketVars >>
    \/ \E t \in Tasks :
          Finish(t) /\ UNCHANGED << unwrapVars, pullVars, chartVars, monthlyVars,
                    bucketVars >>
    \/ EndBuild /\ UNCHANGED << unwrapVars, pullVars, chartVars, monthlyVars,
                    bucketVars >>
SpecParallel == SpecParallelInit /\ [][SpecParallelNext]_vars

\* the standardizer run once on the return records it is given
SpecBucketInit ==
    /\ BucketInit
    /\ UnwrapAtRest /\ PullInit /\ ChartAtRest /\ BuildAtRest
    /\ MonthlyAtRest
SpecBucketNext ==
    \/ AssignBuckets
          /\ UNCHANGED << unwrapVars, pullVars, chartVars, buildVars,
                          monthlyVars >>
    \/ MeanByBucket
          /\ UNCHANGED << unwrapVars, pullVars, chartVars, buildVars,
                          monthlyVars >>
SpecBucket == SpecBucketInit /\ [][SpecBucketNext]_vars

\* the returns calculator run once on the daily returns it is given
SpecMonthlyInit ==
    /\ MonthlyInit
    /\ UnwrapAtRest /\ PullInit /\ ChartAtRest /\ BuildAtRest
    /\ BucketAtRest
SpecMonthlyNext ==
    CompoundMonthly
        /\ UNCHANGED << unwrapVars, pullVars, chartVars, buildVars,
                        bucketVars >>
SpecMonthly == SpecMonthlyInit /\ [][SpecMonthlyNext]_vars

Spec == SpecPull

-----------------------------------------------------------------------------
(* Claims.                                                                   *)

ExactWrapper == resp.pre = CallbackOpen /\ resp.suf = CloseParenSemi
CleanPayload ==
    /\ ~Contains(resp.payload, CloseParenSemi)
    /\ ~Contains(resp.payload, CallbackOpen)

\* C1 as stated: every response `callback (` JSON `);`, in any whitespace
\* variant of the wrapper, is unwrapped to exactly the JSON.
C1_AnyWrapperUnwrapped ==
    (unwrapped # NotYet /\ CleanPayload) => unwrapped = resp.payload

\* C1 amended: with the wrapper exactly `callback (` ... `);` the result is
\* the JSON with every `);` and then every `callback (` deleted, so exactly
\* the JSON when it holds neither; with a whitespace variant of the wrapper
\* the wrapper is not removed and the result is not the JSON.
C1_ExactWrapperUnwrapped ==
    unwrapped # NotYet =>
        /\ ExactWrapper =>
              unwrapped = BytesReplace(
                              BytesReplace(resp.payload, CloseParenSemi, << >>),
                              CallbackOpen, << >>)
        /\ (ExactWrapper /\ CleanPayload) => unwrapped = resp.payload
        /\ (~ExactWrapper /\ CleanPayload) => unwrapped # resp.payload

C1_Witness ==
    /\ unwrapped # NotYet
    /\ ExactWrapper
    /\ CleanPayload
    /\ Len(resp.payload) > Len(DocText(TRUE))
    /\ unwrapped = resp.payload

\* C2: after the coercion every cell of the nine boolean-flag columns is
\* True, False or missing: True exactly for the string "true", False exactly
\* for the string "false", missing for every other value.
C2_BoolCellsCoerced ==
    pullPc = "write" =>
        \A i \in 1..Len(df.rows) : \A c \in Range(bool_cols) :
            /\ df.rows[i][c] \in {Bool(TRUE), Bool(FALSE), NaN}
            /\ i <= Len(securityList.rows) =>
                  /\ df.rows[i][c] = Bool(TRUE)
                        <=> securityList.rows[i][c] = Str("true")
                  /\ df.rows[i][c] = Bool(FALSE)
                        <=> securityList.rows[i][c] = Str("false")

C2_Witness ==
    /\ pullPc = "write"
    /\ \E i \in 1..Len(df.rows) :
          /\ \E c \in Range(bool_cols) :
                securityList.rows[i][c] = Bool(TRUE) /\ df.rows[i][c] = NaN
          /\ \E c \in Range(bool_cols) :
                securityList.rows[i][c] = Str("True") /\ df.rows[i][c] = NaN
          /\ \E c \in Range(bool_cols) :
                securityList.rows[i][c] = Str("true") /\ df.rows[i][c] = Bool(TRUE)
          /\ \E c \in Range(bool_cols) :
                securityList.rows[i][c] = Str("false") /\ df.rows[i][c] = Bool(FALSE)

\* C3: a run that fails at the fetch or at the parse ends there, with one
\* request made and the file as it was; nothing but a completed run changes
\* the file.
C3_FailFastNoPartialFile ==
    [][ /\ lastRun' \in {"fetch", "parse"} =>
              /\ pullPc' = "idle"
              /\ parquet' = parquet
              /\ requests' = 1
        /\ parquet' # parquet => (pullPc = "write" /\ lastRun' = "ok")
        /\ requests' <= 1 ]_vars

C3_Witness ==
    /\ pullPc = "idle"
    /\ lastRun = "parse"
    /\ requests = 1
    /\ parquet # NoFile

\* C7: a value that cannot be parsed becomes a missing value in its own cell:
\* the pull goes on, the frame has one row per element of securityList, and
\* every cell is the coercion of the value at its own place.
C7_CellwiseCoercion ==
    pullPc = "write" =>
        /\ Len(df.rows) = Len(securityList.rows)
        /\ \A i \in 1..Len(df.rows) : \A c \in Columns :
              LET raw == securityList.rows[i][c] IN
              /\ c \in Range(date_cols) =>
                    /\ df.rows[i][c] = ToDatetime(raw)
                    /\ raw \in {Str(""), Str("not a date"), Null} => df.rows[i][c] = NaT
              /\ c \in Range(numeric_cols) =>
                    /\ df.rows[i][c] = ToNumeric(raw)
                    /\ raw \in {Str(""), Str("N/A"), Null} => df.rows[i][c] = NaN
              /\ c \in Range(bool_cols) =>
                    (raw \notin {Str("true"), Str("false")} => df.rows[i][c] = NaN)
              /\ c \in Range(other_cols) => df.rows[i][c] = raw

C7_Witness ==
    /\ pullPc = "write"
    /\ Len(df.rows) = MaxRows
    /\ \E i \in 1..Len(df.rows) :
          /\ \E c \in Range(date_cols) :
                securityList.rows[i][c] = Str("not a date") /\ df.rows[i][c] = NaT
          /\ \E c \in Range(date_cols) : df.rows[i][c] = Timestamp(2024, 1, 15)
          /\ \E c \in Range(numeric_cols) :
                securityList.rows[i][c] = Str("N/A") /\ df.rows[i][c] = NaN
          /\ \E c \in Range(numeric_cols) : df.rows[i][c] = Float(4250)

\* C9: between runs the file holds exactly the table the most recent
\* successful pull returned, and it does not exist if none has succeeded.
C9_FileIsLastSuccessfulPull ==
    /\ lastOk = NoTable => parquet = NoFile
    /\ lastOk # NoTable => parquet = lastOk

C9_Witness ==
    /\ pullPc = "idle"
    /\ lastRun \in {"fetch", "parse", "frame"}
    /\ replaced
    /\ parquet = lastOk

\* the product of 1 + y over a set of rows
RECURSIVE Growth(_)
Growth(rowset) ==
    IF rowset = {} THEN 1
    ELSE LET r == CHOOSE r \in rowset : TRUE
         IN  (1 + r.y) * Growth(rowset \ {r})

\* the observations of a bucket up to a date, as the file holds them
ObservedUpTo(id, ds) ==
    { r \in Range(portfolioFile.rows) : r.unique_id = id /\ r.ds <= ds }

\* C4: the chart has one point per row of the dataset, and the cumulative
\* value of a bucket at a date is 1 times the product of 1 + y over that
\* bucket's own observations up to that date, whatever the other buckets hold.
C4_CumulativeIsRunningProduct ==
    htmlCumulative # NoFile =>
        /\ Len(htmlCumulative.rows) = Len(portfolioFile.rows)
        /\ \A r \in Range(portfolioFile.rows) :
              \E c \in Range(htmlCumulative.rows) :
                  /\ c.unique_id = r.unique_id
                  /\ c.ds = r.ds
                  /\ c.y = r.y
        /\ \A c \in Range(htmlCumulative.rows) :
              c.cumulative = Growth(ObservedUpTo(c.unique_id, c.ds))

C4_Witness ==
    /\ htmlCumulative # NoFile
    /\ Len(portfolioFile.rows) = MaxObs
    /\ \E i, j \in 1..MaxObs :
          /\ i < j
          /\ portfolioFile.rows[i].unique_id = portfolioFile.rows[j].unique_id
          /\ portfolioFile.rows[i].ds > portfolioFile.rows[j].ds
    /\ \E i, j \in 1..MaxObs :
          /\ portfolioFile.rows[i].unique_id # portfolioFile.rows[j].unique_id
          /\ portfolioFile.rows[i].ds = portfolioFile.rows[j].ds
    /\ \E c \in Range(htmlCumulative.rows) : c.cumulative > 1 + c.y

\* C8: a step that finds a required file missing ends with a file-not-found
\* error and no output file: the chart generator with the portfolio dataset
\* missing writes neither chart, the notebook with either dataset missing is
\* not exported; with only the auction file missing the notebook warns and
\* completes.
C8_MissingInputFailsWithoutOutput ==
    /\ stepResult = "FileNotFoundError" =>
          /\ htmlReturns = NoFile
          /\ htmlCumulative = NoFile
          /\ ~nbHtml
          /\ portfolioFile = NoFile \/ ~bondsFile
    /\ (chartPc = "done" /\ portfolioFile = NoFile) =>
          stepResult = "FileNotFoundError"
    /\ (chartPc = "done" /\ stepResult = "ok" /\ nbHtml) =>
          /\ bondsFile
          /\ portfolioFile # NoFile
          /\ nbWarned <=> parquet = NoFile

C8_Witness ==
    /\ chartPc = "done"
    /\ stepResult = "FileNotFoundError"
    /\ portfolioFile = NoFile
    /\ bondsFile
    /\ ~outputDir


-----------------------------------------------------------------------------
(* The task graph of dodo.py.                                               *)

\* the task has been taken by the runner and was not refused
Started(t) == tstate[t] \in {"running", "executed", "uptodate"}

\* C5: in every execution of the task graph, parallel ones included, a task
\* whose step is running reads no file that another task of the graph has
\* yet to produce or is still writing: the producer of every file it
\* reads, declared or not, has completed
C5_ReadersStartAfterProducers ==
    \A t \in Running :
        \A f \in file_dep(t) \cup undeclared_reads(t) :
            \A u \in Producers(f) \ {t} : Complete(u)

\* C6 as stated: a task is executed only when a declared input changed or a
\* declared output is missing, and a run right after a successful full run
\* with no file changed executes no task
C6_RerunsOnlyOnChange ==
    /\ \A t \in Tasks :
          runs[t] > 0 => (atStart[t].changed \/ atStart[t].missing)
    /\ (cleanRebuild /\ BuildOver) => \A t \in Tasks : runs[t] = 0

\* C6: a task is executed only when it declares no file_dep, or a target is
\* missing, or a file_dep changed since its last successful execution, or
\* no successful execution is recorded; a run right after a successful full
\* run with no file changed executes the tasks without file_dep (config)
\* and no other, and finds the others up to date
C6_RerunsOnlyWhenNeeded ==
    /\ \A t \in Tasks :
          runs[t] > 0 =>
              \/ file_dep(t) = {}
              \/ atStart[t].missing
              \/ atStart[t].changed
              \/ atStart[t].unrecorded
    /\ cleanRebuild =>
          \A t \in Tasks : runs[t] > 0 => file_dep(t) = {}
    /\ (cleanRebuild /\ BuildOver) =>
          \A t \in Tasks :
              /\ Complete(t)
              /\ tstate[t] = "executed" <=> file_dep(t) = {}

\* a run right after a successful full run is over: config was executed
\* again and the site was found up to date
C6_Witness ==
    /\ cleanRebuild
    /\ BuildOver
    /\ runs["config"] = 1
    /\ tstate["generate_pipeline_site"] = "uptodate"
    /\ tstate["pull_treasury_auction"] = "uptodate"

\* the stages of the data flow: pulls, derived tables, standardized
\* datasets, charts and notebook, site
Stage(t) ==
    CASE t = "config" -> 0
      [] t \in {"pull_treasury_auction", "pull_crsp_treasury"} -> 1
      [] t \in {"calc_run_status", "calc_returns"} -> 2
      [] t = "create_ftsfr_datasets" -> 3
      [] t \in {"run_notebooks", "generate_charts"} -> 4
      [] t = "generate_pipeline_site" -> 5

\* C10 as stated: a run started with no arguments comes to execute every
\* task exactly once
C10_EveryTaskExecutedOnce ==
    (phase = "running") ~> (BuildOver /\ \A t \in Tasks : runs[t] = 1)

\* the order of a run with one process
C10_Order ==
    \* the declared dependencies follow the order of dodo.py: no cycle
    /\ \A t \in Tasks : \A d \in Deps(t) :
          IndexOf(TaskOrder, d) < IndexOf(TaskOrder, t)
    /\ \A t \in Tasks : \A d \in Deps(t) : Stage(d) < Stage(t)
    \* no task is executed twice in a run
    /\ \A t \in Tasks : runs[t] <= 1
    \* a started task finds every earlier stage complete
    /\ \A t \in Tasks : Started(t) =>
          \A u \in Tasks : Stage(u) < Stage(t) => Complete(u)
    /\ Started("generate_pipeline_site") =>
          Complete("run_notebooks") /\ Complete("generate_charts")
    /\ Started("generate_charts") => Complete("create_ftsfr_datasets")
    \* a run that no task stopped has every task executed or up to date,
    \* and on a fresh checkout every task executed once
    /\ (BuildOver /\ ~stop) => \A t \in Tasks : Complete(t)
    /\ (BuildOver /\ ~stop /\ fresh) => \A t \in Tasks : runs[t] = 1
    \* only a failed task stops a run, and only a pull fails
    /\ stop => \E t \in CanFail : tstate[t] = "failed"

\* C10: the declared graph is acyclic; a run with no arguments executes no
\* task twice, starts a task only after the earlier stages are complete
\* (the site after the notebook and the charts, the charts after the
\* standardized datasets), and always comes to an end; when no task fails
\* every task is executed or found up to date, and on a fresh checkout
\* every task is executed exactly once; a failing pull stops the run
C10_OrderedRunEnds ==
    /\ []C10_Order
    /\ (phase = "running") ~> BuildOver

\* a run of a fresh checkout that executed every task once and is over
C10_Witness ==
    /\ fresh
    /\ BuildOver
    /\ ~stop
    /\ \A t \in Tasks : runs[t] = 1 /\ tstate[t] = "executed"


-----------------------------------------------------------------------------
(* The maturity buckets and the portfolio returns.                          *)

\* the buckets a return record was assigned to
BucketsOf(r) == { m \in membership : m.id = r.id /\ m.ds = r.ds }

\* the boundaries between two buckets: 0.5, 1.0, ..., 4.5 years
InnerBoundaries == { Bins[i] : i \in 2..(Len(Bins) - 1) }

\* C11: on every observation date every security present is assigned to at
\* most one of the 10 half-year buckets, whatever its remaining maturity,
\* the boundary values 0, 0.5, ..., 5.0 included; so no return is counted
\* in two bucket portfolios of the same date
C11_AtMostOneBucket ==
    stdPc # "idle" =>
        /\ \A r \in returnRecords : Cardinality(BucketsOf(r)) <= 1
        /\ \A m \in membership : m.bucket \in Groups
        /\ \A r \in returnRecords :
              r.maturity \in Range(Bins) =>
                  \A m \in BucketsOf(r) : Bins[m.bucket + 1] = r.maturity

\* a security exactly on the boundary of two buckets has been assigned,
\* next to one at exactly 5 years
C11_Witness ==
    /\ stdPc = "assigned"
    /\ \E r \in returnRecords :
          r.maturity \in InnerBoundaries /\ Cardinality(BucketsOf(r)) = 1
    /\ \E r \in returnRecords :
          r.maturity = Bins[Len(Bins)] /\ Cardinality(BucketsOf(r)) = 1


\* the return records assigned to bucket k on date d
Qualifying(k, d) ==
    { r \in returnRecords :
        r.ds = d /\ [id |-> r.id, ds |-> d, bucket |-> k] \in membership }

RECURSIVE TotalY(_)
TotalY(Q) ==
    IF Q = {} THEN 0
    ELSE LET r == CHOOSE x \in Q : TRUE IN r.y + TotalY(Q \ {r})

\* the rows of the portfolio dataset for bucket k on date d
RowsFor(k, d) ==
    { p \in portfolio : p.unique_id = ToString(k) /\ p.ds = d }

\* C12: for every bucket and date the portfolio dataset holds the
\* arithmetic mean of the returns of the securities assigned to the bucket
\* on that date, in one row; a bucket without securities on a date has no
\* row, and no row belongs to anything but a bucket and a date
C12_MeanOfAssignedOrNoRow ==
    stdPc = "done" =>
        /\ \A k \in Groups : \A d \in ObsDates :
              IF Qualifying(k, d) = {}
              THEN RowsFor(k, d) = {}
              ELSE /\ Cardinality(RowsFor(k, d)) = 1
                   /\ \A p \in RowsFor(k, d) :
                         p.y * Cardinality(Qualifying(k, d))
                             = TotalY(Qualifying(k, d))
        /\ \A p \in portfolio :
              \E k \in Groups : \E d \in ObsDates : p \in RowsFor(k, d)

\* two securities with different returns share a bucket on one date, and
\* only one of them is left on another date
C12_Witness ==
    /\ stdPc = "done"
    /\ \E k \in Groups : \E d \in ObsDates :
          /\ Cardinality(Qualifying(k, d)) = 2
          /\ \E q1, q2 \in Qualifying(k, d) : q1.y # q2.y
    /\ \E k \in Groups : \E d \in ObsDates :
          Cardinality(Qualifying(k, d)) = 1
    /\ \E k \in Groups : \E d \in ObsDates : Qualifying(k, d) = {}
    /\ portfolio # {}


-----------------------------------------------------------------------------
(* The monthly returns.                                                     *)

\* the daily return of security s on a day, where it traded
DailyOn(s, day) == { row \in dailyReturns : row.id = s /\ row.day = day }

\* (1 + r) in tenths, multiplied day by day over the trading days of the
\* month up to a day
RECURSIVE GrossUpTo(_, _, _)
GrossUpTo(s, month, day) ==
    IF day = 0 THEN 1
    ELSE IF MonthOf(day) = month /\ DailyOn(s, day) # {}
         THEN (Unit + (CHOOSE row \in DailyOn(s, day) : TRUE).r)
                  * GrossUpTo(s, month, day - 1)
         ELSE GrossUpTo(s, month, day - 1)

\* one tenth-unit per trading day of the month up to a day
RECURSIVE ScaleUpTo(_, _, _)
ScaleUpTo(s, month, day) ==
    IF day = 0 THEN 1
    ELSE IF MonthOf(day) = month /\ DailyOn(s, day) # {}
         THEN Unit * ScaleUpTo(s, month, day - 1)
         ELSE ScaleUpTo(s, month, day - 1)

MonthlyOf(s, month) ==
    { m \in monthlyReturns : m.id = s /\ m.month = month }

\* C13: for every security and month, the monthly return is the product of
\* (1 + daily return) over the security's trading days of that month,
\* minus 1: one record per security and month with trading days, and
\* 1 + num / den equal to that product
C13_MonthlyIsCompoundedDaily ==
    cmpPc = "done" =>
        \A s \in Securities : \A month \in Months :
            IF \A day \in Days : MonthOf(day) = month => DailyOn(s, day) = {}
            THEN MonthlyOf(s, month) = {}
            ELSE /\ Cardinality(MonthlyOf(s, month)) = 1
                 /\ \A m \in MonthlyOf(s, month) :
                       /\ m.den > 0
                       /\ (m.num + m.den) * ScaleUpTo(s, month, MaxDays)
                              = m.den * GrossUpTo(s, month, MaxDays)

\* a security traded on two days of a month with different returns, the
\* other skipped a day of that month, and the monthly returns are computed
C13_Witness ==
    /\ cmpPc = "done"
    /\ \E s \in Securities : \E month \in Months :
          /\ Cardinality(TradingDays(s, month)) >= 2
          /\ \E r1, r2 \in TradingDays(s, month) : r1.r # r2.r
          /\ MonthlyOf(s, month) # {}
          /\ \E t \in Securities :
                /\ Cardinality(TradingDays(t, month)) = 1
                /\ MonthlyOf(t, month) # {}


-----------------------------------------------------------------------------
(* The JSONP wrapper and the payload.                                       *)

\* C14: the unwrapping removes only the wrapper, the prefix `callback (` at
\* the start and the suffix `);` at the end: with that wrapper the bytes
\* handed to json.loads are the payload, byte for byte, also when the
\* payload itself holds `);` or `callback (`
C14_PayloadPreserved ==
    (unwrapped # NotYet /\ ExactWrapper) => unwrapped = resp.payload

=============================================================================
